---------------------------- MODULE Spec2Model ----------------------------
(***************************************************************************)
(* Front end of the interpreter: Lexer::lex (src/src/program/lexer.cpp)    *)
(* followed by Parser::parse (src/unnamed/part_000).  Source text is a     *)
(* sequence of one-character strings, a token value is the sequence of     *)
(* characters the lexer accumulated in ct.value.                           *)
(***************************************************************************)
EXTENDS Integers, Sequences, FiniteSets, TLC

VARIABLES raw, i, tokens, pc, current, success, statements, ast, oob

vars == <<raw, i, tokens, pc, current, success, statements, ast, oob>>

(***************************************************************************)
(* Bounds of the model.                                                    *)
(***************************************************************************)
\* longest source text drawn character by character
MaxLen == 3
\* most binary operators in a generated expression
MaxOps == 2
\* most tokens in a generated parameter list
MaxParams == 4
\* readable cells behind the end of the token vector; the cell after them
\* is unmapped
MaxBeyond == 1

(***************************************************************************)
(* Characters.                                                             *)
(***************************************************************************)
Quote == "\""

Space == " "

\* std::isalpha over the letters the model writes
Alpha == {"a", "b", "c", "d", "e", "f", "g", "h", "i", "j", "k", "l", "m",
          "n", "o", "p", "q", "r", "s", "t", "u", "v", "w", "x", "y", "z"}

\* std::isdigit
Digit == {"0", "1", "2", "3", "4", "5", "6", "7", "8", "9"}

\* the spelling of the words of more than one character
Spell ==
    [let |-> <<"l", "e", "t">>, var |-> <<"v", "a", "r">>,
     const |-> <<"c", "o", "n", "s", "t">>,
     function |-> <<"f", "u", "n", "c", "t", "i", "o", "n">>,
     return |-> <<"r", "e", "t", "u", "r", "n">>,
     true |-> <<"t", "r", "u", "e">>, false |-> <<"f", "a", "l", "s", "e">>,
     if |-> <<"i", "f">>, else |-> <<"e", "l", "s", "e">>,
     for |-> <<"f", "o", "r">>, while |-> <<"w", "h", "i", "l", "e">>,
     break |-> <<"b", "r", "e", "a", "k">>,
     continue |-> <<"c", "o", "n", "t", "i", "n", "u", "e">>,
     void |-> <<"v", "o", "i", "d">>, as |-> <<"a", "s">>,
     uint8 |-> <<"u", "i", "n", "t", "8">>,
     uint16 |-> <<"u", "i", "n", "t", "1", "6">>,
     uint32 |-> <<"u", "i", "n", "t", "3", "2">>,
     uint64 |-> <<"u", "i", "n", "t", "6", "4">>,
     int8 |-> <<"i", "n", "t", "8">>, int16 |-> <<"i", "n", "t", "1", "6">>,
     int32 |-> <<"i", "n", "t", "3", "2">>,
     int64 |-> <<"i", "n", "t", "6", "4">>,
     float8 |-> <<"f", "l", "o", "a", "t", "8">>,
     float16 |-> <<"f", "l", "o", "a", "t", "1", "6">>,
     float32 |-> <<"f", "l", "o", "a", "t", "3", "2">>,
     float64 |-> <<"f", "l", "o", "a", "t", "6", "4">>,
     bool |-> <<"b", "o", "o", "l">>,
     string |-> <<"s", "t", "r", "i", "n", "g">>,
     vector |-> <<"v", "e", "c", "t", "o", "r">>,
     ptr |-> <<"p", "t", "r">>, ref |-> <<"r", "e", "f">>]
    @@ ("+=" :> <<"+", "=">>) @@ ("-=" :> <<"-", "=">>)
    @@ ("*=" :> <<"*", "=">>) @@ ("/=" :> <<"/", "=">>)
    @@ ("%=" :> <<"%", "=">>) @@ ("==" :> <<"=", "=">>)
    @@ ("!=" :> <<"!", "=">>) @@ ("<=" :> <<"<", "=">>)
    @@ (">=" :> <<">", "=">>) @@ ("1.5" :> <<"1", ".", "5">>)
    @@ ("\"s\"" :> <<"\"", "s", "\"">>)

\* a std::string constant of the source as a character sequence
S(w) == IF w \in DOMAIN Spell THEN Spell[w] ELSE <<w>>

(***************************************************************************)
(* Lexer tables.                                                           *)
(***************************************************************************)
keywords ==
    {S("let"), S("var"), S("const"), S("function"), S("return"), S("true"),
     S("false"), S("if"), S("else"), S("for"), S("while"), S("break"),
     S("continue")}

operators ==
    {S("="), S("!"), S("+"), S("-"), S("*"), S("/"), S("%"), S("+="),
     S("-="), S("*="), S("/="), S("%="), S("=="),
     S("!="), S("<"), S("<="), S(">"), S(">=")}

punctuators ==
    {S(";"), S("."), S(","), S("("), S(")"), S("{"), S("}"), S("["), S("]")}

is_keyword(value) == value \in keywords

is_operator(value) == value \in operators

is_punctuator(value) == value \in punctuators

Token(c, v) == [category |-> c, value |-> v]

\* raw[k] for k <= raw.length(): the terminating '\0' sits at raw.length()
NUL == "NUL"

CharAt(k) == IF k < Len(raw) THEN raw[k + 1] ELSE NUL

(***************************************************************************)
(* The inner while loops of Lexer::lex.  Each takes the value accumulated  *)
(* so far and the index i, and returns both after the loop.                *)
(***************************************************************************)
RECURSIVE ScanAlnum(_, _)
ScanAlnum(value, k) ==
    IF k + 1 < Len(raw) /\ (CharAt(k + 1) \in Alpha \/ CharAt(k + 1) \in Digit)
    THEN ScanAlnum(Append(value, CharAt(k + 1)), k + 1)
    ELSE [value |-> value, i |-> k]

RECURSIVE ScanDigits(_, _)
ScanDigits(value, k) ==
    IF k + 1 < Len(raw) /\ CharAt(k + 1) \in Digit
    THEN ScanDigits(Append(value, CharAt(k + 1)), k + 1)
    ELSE [value |-> value, i |-> k]

\* mutant: the operator is never extended past its first character
ScanOperatorOneCharacter(value, k) == [value |-> value, i |-> k]

RECURSIVE ScanOperator(_, _)
ScanOperator(value, k) ==
    IF k + 1 < Len(raw) /\ is_operator(Append(value, CharAt(k + 1)))
    THEN ScanOperator(Append(value, CharAt(k + 1)), k + 1)
    ELSE [value |-> value, i |-> k]

RECURSIVE ScanPunctuator(_, _)
ScanPunctuator(value, k) ==
    IF k + 1 < Len(raw) /\ is_punctuator(Append(value, CharAt(k + 1)))
    THEN ScanPunctuator(Append(value, CharAt(k + 1)), k + 1)
    ELSE [value |-> value, i |-> k]

RECURSIVE ScanString(_, _)
ScanString(value, k) ==
    IF k + 1 < Len(raw) /\ CharAt(k + 1) # Quote
    THEN ScanString(Append(value, CharAt(k + 1)), k + 1)
    ELSE [value |-> value, i |-> k]

\* mutant: the '.' is taken without a look at the character after it
ScanNumberAnyPoint(k) ==
    LET int == ScanDigits(<<CharAt(k)>>, k)
    IN  IF CharAt(int.i + 1) = "."
        THEN LET frac == ScanDigits(Append(int.value, CharAt(int.i + 1)),
                                    int.i + 1)
             IN  [category |-> "FLOAT_LITERAL", value |-> frac.value,
                  i |-> frac.i]
        ELSE [category |-> "INTEGER_LITERAL", value |-> int.value,
              i |-> int.i]

\* the integer-or-float branch: digits, then '.' and digits when a digit
\* follows the '.'
ScanNumber(k) ==
    LET int == ScanDigits(<<CharAt(k)>>, k)
    IN  IF CharAt(int.i + 1) = "." /\ CharAt(int.i + 2) \in Digit
        THEN LET frac == ScanDigits(Append(int.value, CharAt(int.i + 1)),
                                    int.i + 1)
             IN  [category |-> "FLOAT_LITERAL", value |-> frac.value,
                  i |-> frac.i]
        ELSE [category |-> "INTEGER_LITERAL", value |-> int.value,
              i |-> int.i]

WordCategory(value) ==
    IF value = S("false") \/ value = S("true") THEN "BOOLEAN_LITERAL"
    ELSE IF is_keyword(value) THEN "KEYWORD" ELSE "IDENTIFIER"

(***************************************************************************)
(* Parser.  A parser state p carries the cursor (current), the success     *)
(* flag, how control left the last call (st: "ok", "throw" for a           *)
(* std::runtime_error, "crash" for a read of unmapped memory, "hang" for a *)
(* loop that repeats without change), the cursor primitives that have read *)
(* tokens[] outside 0..size-1 (oob), the cells behind the vector (mem),    *)
(* and the last token, boolean and node a call returned (tok, hit, node).  *)
(***************************************************************************)
NoToken == Token("UNKNOWN", <<>>)

NoNode == [kind |-> "none"]

ParserState(cur, succ, mem) ==
    [cur |-> cur, success |-> succ, st |-> "ok", oob |-> {}, mem |-> mem,
     tok |-> NoToken, hit |-> FALSE, node |-> NoNode]

Ok(p) == p.st = "ok"

\* tokens[k]: inside the vector the token; in the cells behind it whatever
\* they hold; past them (and for current - 1 wrapped below zero) a fault
ReadToken(p, k, who) ==
    IF 0 <= k /\ k < Len(tokens)
    THEN [p EXCEPT !.tok = tokens[k + 1]]
    ELSE IF Len(tokens) <= k /\ k < Len(tokens) + Len(p.mem)
    THEN [p EXCEPT !.tok = p.mem[k - Len(tokens) + 1], !.oob = @ \cup {who}]
    ELSE [p EXCEPT !.st = "crash", !.oob = @ \cup {who}]

at_end(p) == p.cur >= Len(tokens)

peek(p) == ReadToken(p, p.cur, "peek")

previous(p) == ReadToken(p, p.cur - 1, "previous")

next(p) == IF ~at_end(p) THEN ReadToken(p, p.cur + 1, "next") ELSE peek(p)

advance(p) == previous(IF ~at_end(p) THEN [p EXCEPT !.cur = @ + 1] ELSE p)

\* every value of the list is compared with the same peek()
match(p, values) ==
    LET q == peek(p)
    IN  IF ~Ok(q) THEN q
        ELSE IF q.tok.value \in values
        THEN [advance(q) EXCEPT !.hit = TRUE]
        ELSE [q EXCEPT !.hit = FALSE]

match_next(p, values) ==
    LET q == next(p)
    IN  IF ~Ok(q) THEN q ELSE [q EXCEPT !.hit = q.tok.value \in values]

TypeNames ==
    {S("uint8"), S("uint16"), S("uint32"), S("uint64"), S("int8"),
     S("int16"), S("int32"), S("int64"), S("float8"), S("float16"),
     S("float32"), S("float64"), S("bool"), S("string"), S("vector"),
     S("ptr"), S("ref")}

match_key(p) ==
    LET q == peek(p)
    IN  IF ~Ok(q) THEN q
        ELSE IF q.tok.category = "IDENTIFIER"
        THEN [advance(q) EXCEPT !.hit = TRUE]
        ELSE IF q.tok.category = "KEYWORD" /\ q.tok.value \in TypeNames
        THEN [advance(q) EXCEPT !.hit = TRUE]
        ELSE [q EXCEPT !.hit = FALSE]

error(p) == [p EXCEPT !.success = FALSE, !.st = "throw"]

\* throw std::runtime_error(...) without a call of error()
Throw(p) == [p EXCEPT !.st = "throw"]

consume(p, type) ==
    LET q == peek(p)
    IN  IF ~Ok(q) THEN q
        ELSE IF q.tok.value = type
        THEN ReadToken([q EXCEPT !.cur = @ + 1], q.cur, "consume")
        ELSE error(q)

Return(p, n) == [p EXCEPT !.node = n]

(***************************************************************************)
(* AST nodes.                                                              *)
(***************************************************************************)
EmptyStatement == [kind |-> "EmptyStatement"]

VariableDeclaration(type, identifier, value) ==
    [kind |-> "VariableDeclaration", type |-> type,
     identifier |-> identifier, value |-> value]

FunctionDeclaration(type, identifier, args_types, args_ids, stmt) ==
    [kind |-> "FunctionDeclaration", type |-> type,
     identifier |-> identifier, args_types |-> args_types,
     args_ids |-> args_ids, statement |-> stmt]

VariableAssignment(identifier, value) ==
    [kind |-> "VariableAssignment", identifier |-> identifier,
     value |-> value]

ScopeDeclaration(stmts) == [kind |-> "ScopeDeclaration", ast |-> stmts]

\* fail_statement stays a null pointer (NoNode) without an else branch
ConditionalStatement(condition, pass, fail) ==
    [kind |-> "ConditionalStatement", condition |-> condition,
     pass_statement |-> pass, fail_statement |-> fail]

WhileLoopStatement(condition, stmt) ==
    [kind |-> "WhileLoopStatement", condition |-> condition,
     statement |-> stmt]

ReturnStatement(expr) == [kind |-> "ReturnStatement", expr |-> expr]

FunctionCall(identifier, args) ==
    [kind |-> "FunctionCall", identifier |-> identifier, args |-> args]

VariableCall(identifier) ==
    [kind |-> "VariableCall", identifier |-> identifier]

BinaryOperation(left, op, right) ==
    [kind |-> "BinaryOperation", left |-> left, op |-> op, right |-> right]

UnaryOperation(op, value) ==
    [kind |-> "UnaryOperation", op |-> op, value |-> value]

CastOperation(value, type) ==
    [kind |-> "CastOperation", value |-> value, type |-> type]

IntegerLiteral(value) == [kind |-> "IntegerLiteral", value |-> value]

FloatLiteral(value) == [kind |-> "FloatLiteral", value |-> value]

BooleanLiteral(value) == [kind |-> "BooleanLiteral", value |-> value]

StringLiteral(value) == [kind |-> "StringLiteral", value |-> value]

(***************************************************************************)
(* Sequencing.  Then(p, K) continues with K on the state a call returned,  *)
(* unless the call left by an exception, a fault or a hang: these unwind   *)
(* through every caller, none of which catches.                            *)
(***************************************************************************)
Then(p, K(_)) == IF Ok(p) THEN K(p) ELSE p

(***************************************************************************)
(* Expressions.  Each level is its function of the source; the Loop        *)
(* operator beside it is the function's while loop, with the tree built so *)
(* far as second argument.                                                 *)
(***************************************************************************)
RECURSIVE expression(_)
RECURSIVE unary(_)

\* while (peek().value != ")") of a call's argument list
RECURSIVE ArgumentLoop(_, _)
ArgumentLoop(p, args) ==
    Then(peek(p), LAMBDA pk :
        IF pk.tok.value = S(")") THEN Return(pk, args)
        ELSE Then(expression(pk), LAMBDA arg :
             Then(peek(arg), LAMBDA pk2 :
                 IF pk2.tok.value # S(")")
                 THEN Then(consume(pk2, S(",")), LAMBDA comma :
                          ArgumentLoop(comma, Append(args, arg.node)))
                 ELSE ArgumentLoop(pk2, Append(args, arg.node)))))

primary(p) ==
    Then(peek(p), LAMBDA pk :
        IF pk.tok.category = "INTEGER_LITERAL"
        THEN Then(advance(pk), LAMBDA lit :
                 Return(lit, IntegerLiteral(lit.tok.value)))
        ELSE IF pk.tok.category = "FLOAT_LITERAL"
        THEN Then(advance(pk), LAMBDA lit :
                 Return(lit, FloatLiteral(lit.tok.value)))
        ELSE IF pk.tok.category = "BOOLEAN_LITERAL"
        THEN Then(advance(pk), LAMBDA lit :
                 Return(lit, BooleanLiteral(lit.tok.value = S("true"))))
        ELSE IF pk.tok.category = "STRING_LITERAL"
        THEN Then(advance(pk), LAMBDA lit :
                 Return(lit, StringLiteral(lit.tok.value)))
        ELSE IF pk.tok.category = "IDENTIFIER"
        THEN Then(next(pk), LAMBDA nx :
                 IF nx.tok.value = S("(")
                 THEN Then(advance(nx), LAMBDA name :
                      Then(advance(name), LAMBDA open :
                      Then(ArgumentLoop(open, <<>>), LAMBDA args :
                      Then(consume(args, S(")")), LAMBDA close :
                          Return(close, FunctionCall(name.tok.value,
                                                     args.node))))))
                 ELSE Then(advance(nx), LAMBDA var :
                          Return(var, VariableCall(var.tok.value))))
        ELSE Then(match(pk, {S("(")}), LAMBDA paren :
                 IF paren.hit
                 THEN Then(expression(paren), LAMBDA inner :
                      Then(consume(inner, S(")")), LAMBDA close :
                          Return(close, inner.node)))
                 ELSE Then(peek(paren), LAMBDA unexpected :
                          error(unexpected))))

unary(p) ==
    Then(match(p, {S("-"), S("!")}), LAMBDA m :
        IF m.hit
        THEN Then(previous(m), LAMBDA op :
             Then(unary(op), LAMBDA right :
                 Return(right, UnaryOperation(op.tok.value, right.node))))
        ELSE primary(m))

\* The while loop of a binary level together with the operand parsed before
\* it: one operand of the next level is parsed and folded into the chain
\* built so far (left, op; NoNode before the first operand), and the loop goes
\* round again while an operator of the level follows.
RECURSIVE RemainderLoop(_, _, _)
RemainderLoop(p, left, op) ==
    Then(unary(p), LAMBDA right :
        LET expr == IF left = NoNode THEN right.node
                    ELSE BinaryOperation(left, op, right.node)
        IN  Then(match(right, {S("%")}), LAMBDA m :
                IF m.hit
                THEN Then(previous(m), LAMBDA o : RemainderLoop(o, expr, o.tok.value))
                ELSE Return(m, expr)))

remainder(p) == RemainderLoop(p, NoNode, <<>>)

RECURSIVE FactorLoop(_, _, _)
FactorLoop(p, left, op) ==
    Then(remainder(p), LAMBDA right :
        LET expr == IF left = NoNode THEN right.node
                    ELSE BinaryOperation(left, op, right.node)
        IN  Then(match(right, {S("*"), S("/")}), LAMBDA m :
                IF m.hit
                THEN Then(previous(m), LAMBDA o : FactorLoop(o, expr, o.tok.value))
                ELSE Return(m, expr)))

factor(p) == FactorLoop(p, NoNode, <<>>)

\* mutant: the operands of + and - are parsed by remainder(), so * and /
\* are left standing
RECURSIVE TermLoopSkipsFactor(_, _, _)
TermLoopSkipsFactor(p, left, op) ==
    Then(remainder(p), LAMBDA right :
        LET expr == IF left = NoNode THEN right.node
                    ELSE BinaryOperation(left, op, right.node)
        IN  Then(match(right, {S("+"), S("-")}), LAMBDA m :
                IF m.hit
                THEN Then(previous(m), LAMBDA o :
                         TermLoopSkipsFactor(o, expr, o.tok.value))
                ELSE Return(m, expr)))

RECURSIVE TermLoop(_, _, _)
TermLoop(p, left, op) ==
    Then(factor(p), LAMBDA right :
        LET expr == IF left = NoNode THEN right.node
                    ELSE BinaryOperation(left, op, right.node)
        IN  Then(match(right, {S("+"), S("-")}), LAMBDA m :
                IF m.hit
                THEN Then(previous(m), LAMBDA o : TermLoop(o, expr, o.tok.value))
                ELSE Return(m, expr)))

term(p) == TermLoop(p, NoNode, <<>>)

RECURSIVE CastLoop(_, _)
CastLoop(p, expr) ==
    Then(match(p, {S("as")}), LAMBDA m :
        IF ~m.hit THEN Return(m, expr)
        ELSE Then(advance(m), LAMBDA type :
                 CastLoop(type, CastOperation(expr, type.tok.value))))

cast(p) ==
    Then(term(p), LAMBDA expr : CastLoop(expr, expr.node))

RECURSIVE ComparisonLoop(_, _, _)
ComparisonLoop(p, left, op) ==
    Then(cast(p), LAMBDA right :
        LET expr == IF left = NoNode THEN right.node
                    ELSE BinaryOperation(left, op, right.node)
        IN  Then(match(right, {S("<"), S("<="), S(">"), S(">=")}), LAMBDA m :
                IF m.hit
                THEN Then(previous(m), LAMBDA o : ComparisonLoop(o, expr, o.tok.value))
                ELSE Return(m, expr)))

comparison(p) == ComparisonLoop(p, NoNode, <<>>)

RECURSIVE EqualityLoop(_, _, _)
EqualityLoop(p, left, op) ==
    Then(comparison(p), LAMBDA right :
        LET expr == IF left = NoNode THEN right.node
                    ELSE BinaryOperation(left, op, right.node)
        IN  Then(match(right, {S("=="), S("!=")}), LAMBDA m :
                IF m.hit
                THEN Then(previous(m), LAMBDA o : EqualityLoop(o, expr, o.tok.value))
                ELSE Return(m, expr)))

equality(p) == EqualityLoop(p, NoNode, <<>>)

expression(p) == equality(p)

(***************************************************************************)
(* Statements.                                                             *)
(***************************************************************************)
RECURSIVE statement(_)

variable_declaration(p) ==
    Then(previous(p), LAMBDA op :
    Then(peek(op), LAMBDA pk :
        IF pk.tok.category # "IDENTIFIER" THEN error(pk)
        ELSE Then(advance(pk), LAMBDA id :
             Then(consume(id, S("=")), LAMBDA eq :
             Then(expression(eq), LAMBDA value :
             Then(consume(value, S(";")), LAMBDA semi :
                 Return(semi, VariableDeclaration(op.tok.value, id.tok.value,
                                                  value.node))))))))

\* while (peek().value != ")") of the parameter list
RECURSIVE ParameterLoop(_, _, _)
ParameterLoop(p, args_types, args_ids) ==
    Then(peek(p), LAMBDA pk :
        IF pk.tok.value = S(")")
        THEN Return(pk, [args_types |-> args_types, args_ids |-> args_ids])
        ELSE Then(advance(pk), LAMBDA type :
             Then(advance(type), LAMBDA id :
             Then(peek(id), LAMBDA pk2 :
                 IF pk2.tok.value # S(")")
                 THEN Then(consume(pk2, S(",")), LAMBDA comma :
                          ParameterLoop(comma,
                                        Append(args_types, type.tok.value),
                                        Append(args_ids, id.tok.value)))
                 ELSE ParameterLoop(pk2, Append(args_types, type.tok.value),
                                    Append(args_ids, id.tok.value))))))

function_declaration(p) ==
    Then(previous(p), LAMBDA type :
    Then(peek(type), LAMBDA pk :
        IF pk.tok.category # "IDENTIFIER" THEN error(pk)
        ELSE Then(advance(pk), LAMBDA id :
             Then(consume(id, S("(")), LAMBDA open :
             Then(ParameterLoop(open, <<>>, <<>>), LAMBDA params :
             Then(consume(params, S(")")), LAMBDA close :
             Then(statement(close), LAMBDA body :
                 Return(body,
                        FunctionDeclaration(type.tok.value, id.tok.value,
                                            params.node.args_types,
                                            params.node.args_ids,
                                            body.node)))))))))

\* mutant: the branch of "-=" assigns the operator of "+="
CompoundOperatorMinusAsPlus(op) ==
    IF op = S("+=") THEN S("+")
    ELSE IF op = S("-=") THEN S("+")
    ELSE IF op = S("*=") THEN S("*")
    ELSE IF op = S("/=") THEN S("/")
    ELSE IF op = S("%=") THEN S("%")
    ELSE <<>>

\* the operator BinaryOperation::op is given for a compound assignment; it
\* stays the empty string for an operator none of the branches names
CompoundOperator(op) ==
    IF op = S("+=") THEN S("+")
    ELSE IF op = S("-=") THEN S("-")
    ELSE IF op = S("*=") THEN S("*")
    ELSE IF op = S("/=") THEN S("/")
    ELSE IF op = S("%=") THEN S("%")
    ELSE <<>>

variable_assignment(p) ==
    Then(advance(p), LAMBDA id :
    Then(peek(id), LAMBDA pk :
        IF pk.tok.category # "OPERATOR" THEN error(pk)
        ELSE Then(advance(pk), LAMBDA op :
             Then(expression(op), LAMBDA value :
             Then(consume(value, S(";")), LAMBDA semi :
                 IF op.tok.value = S("=")
                 THEN Return(semi,
                             VariableAssignment(id.tok.value, value.node))
                 ELSE Return(semi,
                             VariableAssignment(
                                 id.tok.value,
                                 BinaryOperation(
                                     VariableCall(id.tok.value),
                                     CompoundOperator(op.tok.value),
                                     value.node))))))))

\* while (peek().value != "}") of a block.  A statement that returns with
\* the cursor where it was leaves the parser in the state the iteration
\* started in, so the loop repeats it without end.
RECURSIVE ScopeLoop(_, _)
ScopeLoop(p, stmts) ==
    Then(peek(p), LAMBDA pk :
        IF pk.tok.value = S("}") THEN Return(pk, stmts)
        ELSE Then(statement(pk), LAMBDA stmt :
                 IF stmt.cur = pk.cur THEN [stmt EXCEPT !.st = "hang"]
                 ELSE ScopeLoop(stmt, Append(stmts, stmt.node))))

scope_declaration(p) ==
    Then(ScopeLoop(p, <<>>), LAMBDA loop :
    Then(advance(loop), LAMBDA close :
        Return(close, ScopeDeclaration(loop.node))))

conditional_statement(p) ==
    Then(consume(p, S("(")), LAMBDA open :
    Then(expression(open), LAMBDA condition :
    Then(consume(condition, S(")")), LAMBDA close :
    Then(statement(close), LAMBDA pass :
    Then(peek(pass), LAMBDA pk :
        IF pk.tok.value = S("else")
        THEN Then(advance(pk), LAMBDA else :
             Then(statement(else), LAMBDA fail :
                 Return(fail, ConditionalStatement(condition.node, pass.node,
                                                   fail.node))))
        ELSE Return(pk, ConditionalStatement(condition.node, pass.node,
                                             NoNode)))))))

while_loop_statement(p) ==
    Then(consume(p, S("(")), LAMBDA open :
    Then(expression(open), LAMBDA condition :
    Then(consume(condition, S(")")), LAMBDA close :
    Then(statement(close), LAMBDA body :
        Return(body, WhileLoopStatement(condition.node, body.node))))))

return_statement(p) ==
    Then(peek(p), LAMBDA pk :
    Then(IF pk.tok.value = S(";") THEN Return(pk, EmptyStatement)
         ELSE expression(pk), LAMBDA expr :
    Then(consume(expr, S(";")), LAMBDA semi :
        Return(semi, ReturnStatement(expr.node)))))

function_call(p) ==
    Then(advance(p), LAMBDA name :
    Then(advance(name), LAMBDA open :
    Then(ArgumentLoop(open, <<>>), LAMBDA args :
    Then(advance(args), LAMBDA close :
    Then(consume(close, S(";")), LAMBDA semi :
        Return(semi, FunctionCall(name.tok.value, args.node)))))))

AssignmentOperators ==
    {S("="), S("+="), S("-="), S("*="), S("/="), S("%=")}

\* if (match_key()) { if (peek().category == IDENTIFIER) { if
\* (match_next({"="})) ...: hit tells whether variable_declaration() is
\* taken; match_key() has moved the cursor whether or not it is
DeclarationLookahead(p) ==
    Then(match_key(p), LAMBDA key :
        IF key.hit
        THEN Then(peek(key), LAMBDA pk :
                 IF pk.tok.category = "IDENTIFIER"
                 THEN match_next(pk, {S("=")})
                 ELSE [pk EXCEPT !.hit = FALSE])
        ELSE key)

statement(p) ==
    Then(match(p, {S("{")}), LAMBDA scope :
        IF scope.hit THEN scope_declaration(scope)
        ELSE Then(match(scope, {S("if"), S("else")}), LAMBDA cond :
        IF cond.hit THEN conditional_statement(cond)
        ELSE Then(match(cond, {S("while")}), LAMBDA loop :
        IF loop.hit THEN while_loop_statement(loop)
        ELSE Then(match(loop, {S("return")}), LAMBDA ret :
        IF ret.hit THEN return_statement(ret)
        ELSE Then(peek(ret), LAMBDA pk :
             Then(IF pk.tok.category = "IDENTIFIER"
                  THEN match_next(pk, AssignmentOperators)
                  ELSE [pk EXCEPT !.hit = FALSE], LAMBDA assign :
        IF assign.hit THEN variable_assignment(assign)
        ELSE Then(IF pk.tok.category = "IDENTIFIER"
                  THEN match_next(assign, {S("(")})
                  ELSE assign, LAMBDA call :
        IF call.hit THEN function_call(call)
        ELSE Then(DeclarationLookahead(call), LAMBDA decl :
        IF decl.hit THEN variable_declaration(decl)
        ELSE Then(match(decl, {S(";")}), LAMBDA empty :
        IF empty.hit THEN Return(empty, EmptyStatement)
        ELSE expression(empty))))))))))

global_statement(p) ==
    Then(match(p, {S("void")}), LAMBDA void :
    Then(IF void.hit THEN void ELSE match_key(void), LAMBDA key :
        IF key.hit
        THEN Then(peek(key), LAMBDA pk :
                 IF pk.tok.category = "IDENTIFIER"
                 THEN Then(match_next(pk, {S("(")}), LAMBDA open :
                          IF open.hit THEN function_declaration(open)
                          ELSE Throw(open))
                 ELSE Throw(pk))
        ELSE Throw(key)))

(***************************************************************************)
(* Source texts the model runs on.  A program is written as its lexemes    *)
(* and spelled out by Source; blanks separate lexemes that would otherwise *)
(* run together.                                                           *)
(***************************************************************************)
LexAlphabet == {"1", ".", "+", "=", "<", Quote, "a", Space, "#"}

SmallTexts == UNION {[1..n -> LexAlphabet] : n \in 0..MaxLen}

PunctuatorLexemes == {";", ",", "(", ")", "{", "}"}

RECURSIVE Source(_)
Source(lexemes) ==
    IF lexemes = <<>> THEN <<>>
    ELSE IF Len(lexemes) = 1 THEN S(lexemes[1])
    ELSE IF lexemes[1] \in PunctuatorLexemes
            \/ lexemes[2] \in PunctuatorLexemes
    THEN S(lexemes[1]) \o Source(Tail(lexemes))
    ELSE S(lexemes[1]) \o <<Space>> \o Source(Tail(lexemes))

BinaryLexemes ==
    {"==", "!=", "<", "<=", ">", ">=", "+", "-", "*", "/", "%"}

AssignmentLexemes == {"=", "+=", "-=", "*=", "/=", "%="}

Operands == <<"a", "1", "b", "2", "c", "3">>

\* operand, operator, operand, ...: the k-th operand is Operands[k]
ExpressionOf(ops) ==
    [j \in 1..(2 * Len(ops) + 1) |->
        IF j % 2 = 1 THEN Operands[(((j + 1) \div 2 - 1) % Len(Operands)) + 1]
        ELSE ops[j \div 2]]

Expressions(n) ==
    {ExpressionOf(ops) : ops \in UNION {[1..k -> BinaryLexemes] : k \in 0..n}}

Header == <<"void", "f", "(", ")">>

ReturnPrograms ==
    {Header \o <<"{", "return">> \o e \o <<";", "}">> : e \in Expressions(MaxOps)}

AssignmentPrograms ==
    {Header \o <<"{", "x", op>> \o e \o <<";", "}">> :
        op \in AssignmentLexemes, e \in Expressions(MaxOps - 1)}

BarePrograms ==
    {Header \o <<"{">> \o e \o <<";", "}">> : e \in Expressions(MaxOps - 1)}

ParameterPrograms ==
    {<<"void", "f", "(">> \o ps \o <<")", "{", "}">> :
        ps \in UNION {[1..n -> {"t", "a", ","}] : n \in 0..MaxParams}}

Samples ==
    {<<"int32", "add", "(", "int32", "a", ",", "int32", "b", ")", "{",
       "return", "a", "+", "b", ";", "}">>,
     <<"void", "f", "(", ")", "{", "if", "(", "true", ")", "{", "return", ";",
       "}", "}">>,
     <<"void", "f", "(", ")", "{", "if", "(", "a", "<", "1", ")", "x", "=",
       "1", ";", "else", "x", "+=", "2", ";", "while", "(", "!", "a", ")",
       "{", "g", "(", "a", ",", "1", ")", ";", "}", "}">>,
     <<"void", "f", "(", ")", "{", "t", "x", "=", "-", "(", "a", "+", "1.5",
       ")", "*", "g", "(", ")", "as", "int32", ";", "\"s\"", ";", "}",
       "void", "g", "(", ")", "return", "false", ";">>,
     <<"x", "=", "5", ";">>}

\* every sample and every text cut off after n of its lexemes
SamplePrograms == UNION {{SubSeq(s, 1, n) : n \in 0..Len(s)} : s \in Samples}

Programs ==
    ReturnPrograms \cup AssignmentPrograms \cup BarePrograms
    \cup ParameterPrograms \cup SamplePrograms

Texts == SmallTexts \cup {Source(prog) : prog \in Programs}

\* what the cells behind the token vector may hold: a token that matches
\* nothing, or a stale "}" or ";"
Garbage ==
    {NoToken, Token("PUNCTUATOR", S("}")), Token("PUNCTUATOR", S(";"))}

Memories == UNION {[1..n -> Garbage] : n \in 0..MaxBeyond}

(***************************************************************************)
(* The state machine: Lexer::lex one iteration of its for loop at a time,  *)
(* then Parser::Parser and Parser::parse one global statement at a time.   *)
(***************************************************************************)
Init ==
    /\ raw \in Texts
    /\ i = 0
    /\ tokens = <<>>
    /\ pc = "lex"
    /\ current = 0
    /\ success = FALSE
    /\ statements = <<>>
    /\ ast = <<>>
    /\ oob = {}

Lexing == pc = "lex" /\ i < Len(raw)

Push(category, value, last) ==
    /\ tokens' = Append(tokens, Token(category, value))
    /\ i' = last + 1
    /\ UNCHANGED <<raw, pc, current, success, statements, ast, oob>>

LexSpace ==
    /\ Lexing
    /\ CharAt(i) = Space
    /\ i' = i + 1
    /\ UNCHANGED <<raw, tokens, pc, current, success, statements, ast, oob>>

LexWord ==
    /\ Lexing
    /\ CharAt(i) \in Alpha
    /\ LET ct == ScanAlnum(<<CharAt(i)>>, i)
       IN  Push(WordCategory(ct.value), ct.value, ct.i)

LexNumber ==
    /\ Lexing
    /\ CharAt(i) \in Digit
    /\ LET ct == ScanNumber(i) IN Push(ct.category, ct.value, ct.i)

LexOperator ==
    /\ Lexing
    /\ is_operator(<<CharAt(i)>>)
    /\ LET ct == ScanOperator(<<CharAt(i)>>, i)
       IN  Push("OPERATOR", ct.value, ct.i)

LexPunctuator ==
    /\ Lexing
    /\ is_punctuator(<<CharAt(i)>>)
    /\ LET ct == ScanPunctuator(<<CharAt(i)>>, i)
       IN  Push("PUNCTUATOR", ct.value, ct.i)

\* the ++i after push_back steps over the closing quote, or past the end
LexString ==
    /\ Lexing
    /\ CharAt(i) = Quote
    /\ LET ct == ScanString(<<>>, i)
       IN  Push("STRING_LITERAL", ct.value, ct.i + 1)

Recognized(c) ==
    \/ c = Space
    \/ c \in Alpha
    \/ c \in Digit
    \/ is_operator(<<c>>)
    \/ is_punctuator(<<c>>)
    \/ c = Quote

LexUnknown ==
    /\ Lexing
    /\ ~Recognized(CharAt(i))
    /\ pc' = "lex_error"
    /\ UNCHANGED <<raw, i, tokens, current, success, statements, ast, oob>>

\* lex() returns and Parser::Parser starts on the tokens
ParserStart ==
    /\ pc = "lex"
    /\ i >= Len(raw)
    /\ pc' = "parse"
    /\ success' = TRUE
    /\ current' = 0
    /\ UNCHANGED <<raw, i, tokens, statements, ast, oob>>

Outcome(st) ==
    IF st = "ok" THEN "parse"
    ELSE IF st = "throw" THEN "parse_error"
    ELSE st

\* one iteration of the while loop of parse()
ParseGlobalStatement ==
    /\ pc = "parse"
    /\ current < Len(tokens)
    /\ \E mem \in Memories :
          LET p == global_statement(ParserState(current, success, mem))
          IN  /\ pc' = Outcome(p.st)
              /\ current' = p.cur
              /\ success' = p.success
              /\ oob' = oob \cup p.oob
              /\ statements' =
                    IF Ok(p) THEN Append(statements, p.node) ELSE statements
    /\ UNCHANGED <<raw, i, tokens, ast>>

ParseEnd ==
    /\ pc = "parse"
    /\ current >= Len(tokens)
    /\ ast' = statements
    /\ pc' = "done"
    /\ UNCHANGED <<raw, i, tokens, current, success, statements, oob>>

Next ==
    \/ LexSpace
    \/ LexWord
    \/ LexNumber
    \/ LexOperator
    \/ LexPunctuator
    \/ LexString
    \/ LexUnknown
    \/ ParserStart
    \/ ParseGlobalStatement
    \/ ParseEnd

Spec == Init /\ [][Next]_vars

(***************************************************************************)
(* Vocabulary of the properties.                                           *)
(***************************************************************************)
\* the run is over: nothing is lexing or parsing any more
Finished == pc \notin {"lex", "parse"}

Values(toks) == [k \in 1..Len(toks) |-> toks[k].value]

Count(seq, x) == Cardinality({k \in 1..Len(seq) : seq[k] = x})

Words(lexemes) == [k \in 1..Len(lexemes) |-> S(lexemes[k])]

StartsWith(lexemes) ==
    /\ Len(tokens) >= Len(lexemes)
    /\ Values(SubSeq(tokens, 1, Len(lexemes))) = Words(lexemes)

EndsWith(lexemes) ==
    /\ Len(tokens) >= Len(lexemes)
    /\ Values(SubSeq(tokens, Len(tokens) - Len(lexemes) + 1, Len(tokens)))
          = Words(lexemes)

OperandCategories ==
    {"IDENTIFIER", "INTEGER_LITERAL", "FLOAT_LITERAL", "BOOLEAN_LITERAL",
     "STRING_LITERAL"}

BinaryOperators == {S(op) : op \in BinaryLexemes}

\* operand, binary operator, operand, ..., operand
IsBinaryExpression(e) ==
    /\ Len(e) % 2 = 1
    /\ \A k \in 1..Len(e) :
          IF k % 2 = 1 THEN e[k].category \in OperandCategories
          ELSE e[k].category = "OPERATOR" /\ e[k].value \in BinaryOperators

\* binding strength of a binary operator, 1 the loosest
Binding(op) ==
    IF op \in {S("=="), S("!=")} THEN 1
    ELSE IF op \in {S("<"), S("<="), S(">"), S(">=")} THEN 2
    ELSE IF op \in {S("+"), S("-")} THEN 3
    ELSE IF op \in {S("*"), S("/")} THEN 4
    ELSE 5

LeafOf(tok) ==
    IF tok.category = "IDENTIFIER" THEN VariableCall(tok.value)
    ELSE IF tok.category = "INTEGER_LITERAL" THEN IntegerLiteral(tok.value)
    ELSE IF tok.category = "FLOAT_LITERAL" THEN FloatLiteral(tok.value)
    ELSE IF tok.category = "BOOLEAN_LITERAL"
    THEN BooleanLiteral(tok.value = S("true"))
    ELSE StringLiteral(tok.value)

\* The reference parse: the expression splits at the last of its loosest
\* operators, whose operands are the reference parses of the two sides.
RECURSIVE ReferenceTree(_)
ReferenceTree(e) ==
    IF Len(e) = 1 THEN LeafOf(e[1])
    ELSE LET at == {k \in 1..Len(e) : k % 2 = 0}
             loosest == CHOOSE b \in {Binding(e[k].value) : k \in at} :
                           \A k \in at : b <= Binding(e[k].value)
             split == CHOOSE k \in at :
                         /\ Binding(e[k].value) = loosest
                         /\ \A j \in at :
                               Binding(e[j].value) = loosest => j <= k
         IN  [kind |-> "BinaryOperation",
              left |-> ReferenceTree(SubSeq(e, 1, split - 1)),
              op |-> e[split].value,
              right |-> ReferenceTree(SubSeq(e, split + 1, Len(e)))]

\* the statements of the block that is the body of the only function
Body == ast[1].statement.ast

(***************************************************************************)
(* C1: a source text with a string literal whose opening quote has no      *)
(* closing quote before the end of the input never gets through the lexer, *)
(* and no STRING_LITERAL token is emitted for the unterminated string.     *)
(* The lexer has no comments and no escapes, so quotes pair up in order    *)
(* and an odd number of them leaves the last one unclosed.                 *)
(***************************************************************************)
StringLiterals == {k \in 1..Len(tokens) : tokens[k].category = "STRING_LITERAL"}

C1_UnterminatedStringFails ==
    Count(raw, Quote) % 2 = 1 =>
        /\ pc \in {"lex", "lex_error"}
        /\ 2 * Cardinality(StringLiterals) <= Count(raw, Quote)

(***************************************************************************)
(* C2: whenever parsing aborts with an error, the success flag is false;    *)
(* stated for the runs whose reads all stay inside the token vector, as    *)
(* the run on the tokens of `x = 5;` does.                                 *)
(***************************************************************************)
C2_ParseFailureClearsSuccess ==
    (pc = "parse_error" /\ oob = {}) => success = FALSE

(***************************************************************************)
(* C3: peek, next and previous (and consume, which reads through peek)     *)
(* never read the token vector outside its bounds.                         *)
(***************************************************************************)
C3_CursorReadsInBounds == oob = {}

(***************************************************************************)
(* C4: parsing a token sequence that ends inside an unclosed block of a    *)
(* function body terminates, and terminates with a parse failure.          *)
(***************************************************************************)
EndsInsideBlock ==
    /\ StartsWith(<<"void", "f", "(", ")", "{">>)
    /\ Count(Values(tokens), S("{")) > Count(Values(tokens), S("}"))

C4_UnclosedBlockFails ==
    (Finished /\ pc # "lex_error" /\ EndsInsideBlock) => pc = "parse_error"

(***************************************************************************)
(* C5: a parameter list is accepted only if it is empty or consists of     *)
(* (type, identifier) pairs separated by single commas -- a trailing comma *)
(* is rejected -- and args_types and args_ids then hold one entry per      *)
(* pair.                                                                   *)
(***************************************************************************)
ParameterList == SubSeq(tokens, 4, Len(tokens) - 3)

IsParameterProgram ==
    /\ StartsWith(<<"void", "f", "(">>)
    /\ EndsWith(<<")", "{", "}">>)
    /\ Len(tokens) >= 6
    /\ \A k \in 1..Len(ParameterList) : ParameterList[k].value # S(")")

PairsSeparatedByCommas(ps) ==
    \/ ps = <<>>
    \/ /\ Len(ps) % 3 = 2
       /\ \A k \in 1..Len(ps) :
             IF k % 3 = 0 THEN ps[k].value = S(",")
             ELSE ps[k].category = "IDENTIFIER"

C5_TrailingCommaRejected ==
    (pc = "done" /\ IsParameterProgram) =>
        /\ PairsSeparatedByCommas(ParameterList)
        /\ Len(ast[1].args_types) = (Len(ParameterList) + 1) \div 3
        /\ Len(ast[1].args_ids) = (Len(ParameterList) + 1) \div 3

(***************************************************************************)
(* C6: for an expression of literal and identifier operands joined by the  *)
(* binary operators of the levels equality, comparison, term, factor and   *)
(* remainder, expression() returns the reference parse: tighter levels     *)
(* nest below looser ones and operators of one level fold to the left.     *)
(* The expression is the one of `void f() { return <expression>; }`.       *)
(***************************************************************************)
ReturnedExpression == SubSeq(tokens, 7, Len(tokens) - 2)

IsReturnProgram ==
    /\ StartsWith(<<"void", "f", "(", ")", "{", "return">>)
    /\ EndsWith(<<";", "}">>)
    /\ Len(tokens) >= 9
    /\ IsBinaryExpression(ReturnedExpression)

C6_ExpressionIsReferenceParse ==
    (Finished /\ pc # "lex_error" /\ IsReturnProgram) =>
        /\ pc = "done"
        /\ Body = <<ReturnStatement(ReferenceTree(ReturnedExpression))>>

\* a + 1 * b has been parsed, the product below the sum
C6_Witness ==
    /\ pc = "done"
    /\ IsReturnProgram
    /\ Values(ReturnedExpression) = Words(<<"a", "+", "1", "*", "b">>)
    /\ Body[1].expr.op = S("+")
    /\ Body[1].expr.right.kind = "BinaryOperation"

(***************************************************************************)
(* C7: `id op= e;` with op one of + - * / % yields VariableAssignment(id,   *)
(* BinaryOperation(VariableCall(id), op, tree of e)); `id = e;` yields     *)
(* VariableAssignment(id, tree of e).  The statement is the one of         *)
(* `void f() { id op= e; }`.                                               *)
(***************************************************************************)
AssignedExpression == SubSeq(tokens, 8, Len(tokens) - 2)

IsAssignmentProgram ==
    /\ StartsWith(<<"void", "f", "(", ")", "{">>)
    /\ EndsWith(<<";", "}">>)
    /\ Len(tokens) >= 10
    /\ tokens[6].category = "IDENTIFIER"
    /\ tokens[7].value \in AssignmentOperators
    /\ IsBinaryExpression(AssignedExpression)

\* the assignment operator without its "="
Desugared(op) == SubSeq(op, 1, Len(op) - 1)

C7_CompoundAssignmentDesugars ==
    (Finished /\ pc # "lex_error" /\ IsAssignmentProgram) =>
        /\ pc = "done"
        /\ Body =
              <<IF tokens[7].value = S("=")
                THEN VariableAssignment(tokens[6].value,
                                        ReferenceTree(AssignedExpression))
                ELSE VariableAssignment(
                         tokens[6].value,
                         [kind |-> "BinaryOperation",
                          left |-> VariableCall(tokens[6].value),
                          op |-> Desugared(tokens[7].value),
                          right |-> ReferenceTree(AssignedExpression)])>>

\* x -= a + 1; has been parsed
C7_Witness ==
    /\ pc = "done"
    /\ IsAssignmentProgram
    /\ tokens[7].value = S("-=")
    /\ Len(AssignedExpression) = 3
    /\ Body[1].value.op = S("-")

(***************************************************************************)
(* C8: where the lexer stands on a digit, it emits one FLOAT_LITERAL of    *)
(* the digit run, the '.' and the digit run after it when the digit run is *)
(* followed by '.' and a digit, and otherwise one INTEGER_LITERAL of the   *)
(* digit run alone, also at the end of the input; a '.' left standing      *)
(* after the digit run is lexed next, as a PUNCTUATOR of its own.          *)
(***************************************************************************)
\* the index of the last digit of the digit run that starts at index k
DigitRunEnd(k) ==
    CHOOSE j \in k..(Len(raw) - 1) :
        /\ \A m \in k..j : raw[m + 1] \in Digit
        /\ j + 1 < Len(raw) => raw[j + 2] \notin Digit

Text(from, to) == SubSeq(raw, from + 1, to + 1)

FractionFollows(j) ==
    /\ j + 2 < Len(raw)
    /\ raw[j + 2] = "."
    /\ raw[j + 3] \in Digit

NumberStep ==
    (pc = "lex" /\ i < Len(raw) /\ raw[i + 1] \in Digit) =>
        LET j == DigitRunEnd(i)
        IN  IF FractionFollows(j)
            THEN /\ tokens' = Append(tokens,
                                     Token("FLOAT_LITERAL",
                                           Text(i, DigitRunEnd(j + 2))))
                 /\ i' = DigitRunEnd(j + 2) + 1
            ELSE /\ tokens' = Append(tokens,
                                     Token("INTEGER_LITERAL", Text(i, j)))
                 /\ i' = j + 1

PointStep ==
    (pc = "lex" /\ i < Len(raw) /\ raw[i + 1] = ".") =>
        /\ tokens' = Append(tokens, Token("PUNCTUATOR", <<".">>))
        /\ i' = i + 1

C8_NumbersSplitAtThePoint == [][NumberStep /\ PointStep]_vars

\* "11." has been lexed: the integer 11, then the punctuator
C8_Witness ==
    /\ raw = <<"1", "1", ".">>
    /\ tokens = <<Token("INTEGER_LITERAL", <<"1", "1">>),
                  Token("PUNCTUATOR", <<".">>)>>

(***************************************************************************)
(* C9: where an operator starts, the OPERATOR token emitted is the longest *)
(* prefix of the remaining input that is a member of the operator set, and *)
(* every OPERATOR token's value is a member of that set.                   *)
(***************************************************************************)
LongestOperatorAt(k) ==
    LET n == CHOOSE n \in 1..(Len(raw) - k) :
                /\ SubSeq(raw, k + 1, k + n) \in operators
                /\ \A m \in (n + 1)..(Len(raw) - k) :
                      SubSeq(raw, k + 1, k + m) \notin operators
    IN  SubSeq(raw, k + 1, k + n)

OperatorStep ==
    (pc = "lex" /\ i < Len(raw) /\ <<raw[i + 1]>> \in operators) =>
        /\ tokens' = Append(tokens, Token("OPERATOR", LongestOperatorAt(i)))
        /\ i' = i + Len(LongestOperatorAt(i))

OperatorTokensAreOperators ==
    \A k \in 1..Len(tokens) :
        tokens[k].category = "OPERATOR" => tokens[k].value \in operators

C9_OperatorsAreMaximalMunch ==
    [][OperatorStep /\ OperatorTokensAreOperators']_vars

\* "+=" has been lexed as the one token +=
C9_Witness ==
    /\ raw = <<"+", "=">>
    /\ tokens = <<Token("OPERATOR", <<"+", "=">>)>>

(***************************************************************************)
(* C10: a statement that starts with an identifier followed by a binary    *)
(* operator takes none of the specific alternatives and is parsed as a     *)
(* bare expression from its first token: the statement of                  *)
(* `void f() { a + b; }` is the tree of the whole expression a + b.        *)
(***************************************************************************)
BareExpression == SubSeq(tokens, 6, Len(tokens) - 2)

IsBareProgram ==
    /\ StartsWith(<<"void", "f", "(", ")", "{">>)
    /\ EndsWith(<<";", "}">>)
    /\ Len(tokens) >= 10
    /\ IsBinaryExpression(BareExpression)
    /\ BareExpression[1].category = "IDENTIFIER"

C10_BareExpressionFromFirstToken ==
    (Finished /\ pc # "lex_error" /\ IsBareProgram) =>
        /\ pc = "done"
        /\ Body = <<ReferenceTree(BareExpression), EmptyStatement>>

=============================================================================
